---- MODULE Spec2Model ----
(***************************************************************************)
(* A model of app.py of the Afya-Toto dashboard: the module-level startup  *)
(* (fetch the two artifacts if missing, unpickle them with a fallback),    *)
(* the Flask landing route, and the Dash callback update_chart.            *)
(*                                                                         *)
(* Python values are tagged records, so that values of different Python    *)
(* types can be compared.  Numbers that are Python floats are integers in  *)
(* thousandths (0.5 is 500, 0.73 is 730).                                  *)
(***************************************************************************)
EXTENDS Integers, Sequences, FiniteSets, TLC

VARIABLES
    disk,                 \* the working directory: path -> file content
    pc,                   \* where the process is: fetch, load_features, load_model,
                          \* main, serving, crashed
    feature_importances,  \* module global, app.py:33/37
    model,                \* module global, app.py:49/53
    dlLog,                \* history: one entry per iteration of the download loop
    loads,                \* history: per path, the outcomes of its load attempts
    last,                 \* history: the request served last, with its response
    prev,                 \* history: the last callback before it that passed the guard
    prevRun,              \* history: the download log of the previous process
    runs,                 \* history: how many times the process was started again
    qres                  \* the answer to the last feature query

vars == <<disk, pc, feature_importances, model, dlLog, loads, last, prev,
          prevRun, runs, qres>>

---------------------------------------------------------------------------
(* Bounds of the model *)

MaxClicks == 1      \* n_clicks ranges over 0..MaxClicks
MaxSel == 1         \* a feature selection holds at most MaxSel features
MaxRestarts == 1    \* the process is started again at most MaxRestarts times
MaxRows == 2        \* a feature table holds at most MaxRows rows
MaxN == 2           \* topFeatures is asked for at most MaxN entries

---------------------------------------------------------------------------
(* Python values *)

PyNone == [tag |-> "None"]
PyStr(s) == [tag |-> "str", s |-> s]
PyList(items) == [tag |-> "list", items |-> items]
PyNum(v) == [tag |-> "num", v |-> v]
PyDict(keys) == [tag |-> "dict", keys |-> keys]
Unbound == [tag |-> "unbound"]
Exc(type, msg) == [tag |-> "exception", type |-> type, msg |-> msg]

\* str(v) of None and of a string
Str(v) == IF v.tag = "None" THEN "None" ELSE v.s

\* bool(v): None, "", [] and 0 are falsy
Truthy(v) ==
    CASE v.tag = "None" -> FALSE
      [] v.tag = "str" -> v.s # ""
      [] v.tag = "list" -> v.items # <<>>
      [] v.tag = "num" -> v.v # 0
      [] OTHER -> TRUE

---------------------------------------------------------------------------
(* Program constants *)

FEATURES_FILE_ID == "1Wp4NOmMveYMql2h8GVfyx0J8pmNU7pkQ"
MODEL_FILE_ID == "1sxZBckDWmumOd7Yilg4_0oudNlqLOWZu"
FEATURES_PATH == "feature_importances.pkl"
MODEL_PATH == "final_model.pkl"
Paths == {FEATURES_PATH, MODEL_PATH}

\* the list the download loop iterates over
FetchList == << <<FEATURES_FILE_ID, FEATURES_PATH>>, <<MODEL_FILE_ID, MODEL_PATH>> >>

\* the first features of kenya_features, the options of feature-dropdown
kenya_features == <<"num__child_death_history", "cat__Region_Kwale">>

\* the values of the options of target-dropdown
TargetOptions == {"Under5", "Infant", "Neonatal"}

---------------------------------------------------------------------------
(* Files and what pickle makes of them *)

Absent == [tag |-> "absent"]            \* os.path.exists(path) is False
Corrupt == [tag |-> "corrupt"]          \* a file pickle.load cannot deserialize
Pickled(obj) == [tag |-> "pickle", obj |-> obj]

\* os.path.exists(path)
Exists(d, path) == d[path] # Absent

\* open(path, "rb") followed by pickle.load(f): the object, or the exception raised
Unpickle(content) ==
    CASE content.tag = "absent" -> Exc("FileNotFoundError", "No such file or directory")
      [] content.tag = "corrupt" -> Exc("UnpicklingError", "invalid load key")
      [] OTHER -> content.obj

Raised(v) == v.tag = "exception"

---------------------------------------------------------------------------
(* The artifacts a file may hold *)

RECURSIVE SeqsUpTo(_, _)
\* the sequences over S of length at most n
SeqsUpTo(S, n) ==
    IF n = 0 THEN {<<>>}
    ELSE LET shorter == SeqsUpTo(S, n - 1)
         IN shorter \cup {Append(q, e) : q \in shorter, e \in S}

Range(q) == {q[k] : k \in 1..Len(q)}
Distinct(q) == Cardinality(Range(q)) = Len(q)

\* what the multi-select feature-dropdown can hold: lists of distinct options
Selections == {q \in SeqsUpTo(Range(kenya_features), MaxSel) : Distinct(q)}
PredictRows == Selections \ {<<>>}

\* a fitted estimator: predict is a deterministic function of the row it is given;
\* its value stands for model.predict([row]).tolist()[0], or the exception raised
Estimator(f) == [tag |-> "estimator", predict |-> f]
ConstEstimator(o) == Estimator([r \in PredictRows |-> o])
FeatureEstimator ==
    Estimator([r \in PredictRows |->
                 IF r[1] = kenya_features[1] THEN PyNum(200) ELSE PyNum(501)])

ModelObjects ==
    { ConstEstimator(PyNum(500)),
      ConstEstimator(PyNum(730)),
      ConstEstimator(PyStr("died")),
      ConstEstimator(Exc("ValueError", "could not convert string to float")),
      FeatureEstimator,
      PyDict({"Under5"}) }

ModelFiles == {Corrupt} \cup {Pickled(o) : o \in ModelObjects}

\* the feature-importance table: rows of Target, Feature, Importance
Row(t, f, i) == [Target |-> t, Feature |-> f, Importance |-> i]
DataFrame(rows) ==
    [tag |-> "DataFrame", columns |-> <<"Target", "Feature", "Importance">>,
     rows |-> rows]

SampleTable ==
    DataFrame(<< Row("Under5", "A", 9), Row("Under5", "B", 5), Row("Infant", "C", 7) >>)

FeatureFiles == {Corrupt, Pickled(SampleTable)}

\* what the remote host may deliver for a path: the published artifact, or for the
\* model a page that is no pickle
RemoteFiles(path) ==
    IF path = FEATURES_PATH THEN {Pickled(SampleTable)}
    ELSE {Corrupt, Pickled(ConstEstimator(PyNum(730)))}

---------------------------------------------------------------------------
(* Startup: the module-level code *)

NoRequest == [tag |-> "none"]
NoRun == [tag |-> "none"]
NoLoads == [p \in Paths |-> <<>>]

InitWith(featureFiles, modelFiles) ==
    /\ disk \in {[p \in Paths |-> IF p = FEATURES_PATH THEN f ELSE m] :
                   f \in {Absent} \cup featureFiles, m \in {Absent} \cup modelFiles}
    /\ pc = "fetch"
    /\ feature_importances = Unbound
    /\ model = Unbound
    /\ dlLog = <<>>
    /\ loads = NoLoads
    /\ last = NoRequest
    /\ prev = NoRequest
    /\ prevRun = NoRun
    /\ runs = 0
    /\ qres = PyNone

Init == InitWith(FeatureFiles, ModelFiles)

\* what gdown.download(url, path) can do: write the file, give up returning None,
\* or raise
DownloadOutcomes == {"written", "returned_none", "raised"}

\* a download loop that downloads whether or not the file is there
FetchStepAlways(i, outcome, content) ==
    LET path == FetchList[i][2]
        after == IF outcome = "written" THEN [disk EXCEPT ![path] = content] ELSE disk
    IN /\ disk' = after
       /\ dlLog' = Append(dlLog,
                     [path |-> path, existed |-> Exists(disk, path), issued |-> TRUE,
                      url |-> <<"https://drive.google.com/uc?id=", FetchList[i][1]>>,
                      outcome |-> outcome,
                      before |-> disk[path], after |-> after[path]])
       /\ pc' = IF outcome = "raised" THEN "crashed"
                ELSE IF i = Len(FetchList) THEN "load_features"
                ELSE "fetch"

\* one iteration of the download loop on the pair FetchList[i], where the download,
\* if issued, ends in outcome with content delivered
FetchStep(i, outcome, content) ==
    LET path == FetchList[i][2]
        existed == Exists(disk, path)
        issued == ~existed
        after == IF issued /\ outcome = "written"
                 THEN [disk EXCEPT ![path] = content]
                 ELSE disk
    IN /\ disk' = after
       /\ dlLog' = Append(dlLog,
                     [path |-> path, existed |-> existed, issued |-> issued,
                      url |-> <<"https://drive.google.com/uc?id=", FetchList[i][1]>>,
                      outcome |-> IF issued THEN outcome ELSE "skipped",
                      before |-> disk[path], after |-> after[path]])
       /\ pc' = IF issued /\ outcome = "raised" THEN "crashed"
                ELSE IF i = Len(FetchList) THEN "load_features"
                ELSE "fetch"

Fetch ==
    /\ pc = "fetch"
    /\ LET i == Len(dlLog) + 1
       IN \E outcome \in DownloadOutcomes :
            \E content \in RemoteFiles(FetchList[i][2]) :
               FetchStep(i, outcome, content)
    /\ UNCHANGED <<feature_importances, model, loads, last, prev, prevRun, runs, qres>>

\* a loader that falls back to a built-in table
LoadedFeaturesBuiltin(content) ==
    IF Raised(Unpickle(content)) THEN PyList(<<Row("Under5", "A", 9)>>)
    ELSE Unpickle(content)

\* the value feature_importances is bound to, given the file's content
LoadedFeatures(content) ==
    IF Raised(Unpickle(content)) THEN PyList(<<>>) ELSE Unpickle(content)

\* a loader that falls back to an empty mapping
LoadedModelEmptyDict(content) ==
    IF Raised(Unpickle(content)) THEN PyDict({}) ELSE Unpickle(content)

\* the value model is bound to, given the file's content
LoadedModel(content) ==
    IF Raised(Unpickle(content)) THEN PyNone ELSE Unpickle(content)

LoadOutcome(content) == IF Raised(Unpickle(content)) THEN "failed" ELSE "loaded"

LoadFeatures ==
    /\ pc = "load_features"
    /\ feature_importances' = LoadedFeatures(disk[FEATURES_PATH])
    /\ loads' = [loads EXCEPT ![FEATURES_PATH] =
                    Append(@, LoadOutcome(disk[FEATURES_PATH]))]
    /\ pc' = "load_model"
    /\ UNCHANGED <<disk, model, dlLog, last, prev, prevRun, runs, qres>>

LoadModel ==
    /\ pc = "load_model"
    /\ model' = LoadedModel(disk[MODEL_PATH])
    /\ loads' = [loads EXCEPT ![MODEL_PATH] = Append(@, LoadOutcome(disk[MODEL_PATH]))]
    /\ pc' = "main"
    /\ UNCHANGED <<disk, feature_importances, dlLog, last, prev, prevRun, runs, qres>>

\* a server started before the model is loaded
StartServerBeforeLoad ==
    /\ pc \in {"load_model", "main"}
    /\ pc' = "serving"
    /\ UNCHANGED <<disk, feature_importances, model, dlLog, loads, last, prev,
                   prevRun, runs, qres>>

\* server.run(...): from here on requests are served
StartServer ==
    /\ pc = "main"
    /\ pc' = "serving"
    /\ UNCHANGED <<disk, feature_importances, model, dlLog, loads, last, prev,
                   prevRun, runs, qres>>

Startup == Fetch \/ LoadFeatures \/ LoadModel \/ StartServer

---------------------------------------------------------------------------
(* The landing route and the dashboard layout *)

IndexResponse ==
    [tag |-> "index", status |-> 200,
     body |-> <<"Afya-Toto", "Under-5 Mortality Risk Prediction Tool - Kenya">>,
     link |-> "/dashboard/"]

LayoutResponse ==
    [tag |-> "layout", status |-> 200,
     feature_options |-> kenya_features, target_options |-> TargetOptions,
     n_clicks |-> 0]

\* the history of requests: prev keeps the latest callback that passed the guard
IsCall(r) == r.tag = "callback" /\ r.calls # <<>>
Shift(r) == IF IsCall(r) THEN r ELSE prev

\* GET /
Index ==
    /\ pc = "serving"
    /\ last' = IndexResponse
    /\ prev' = Shift(last)
    /\ UNCHANGED <<disk, pc, feature_importances, model, dlLog, loads, prevRun,
                   runs, qres>>

\* GET /dashboard/
Dashboard ==
    /\ pc = "serving"
    /\ last' = LayoutResponse
    /\ prev' = Shift(last)
    /\ UNCHANGED <<disk, pc, feature_importances, model, dlLog, loads, prevRun,
                   runs, qres>>

---------------------------------------------------------------------------
(* The callback update_chart *)

WaitingFigure ==
    [title |-> <<"Select features + target, then click Predict">>,
     annotations |-> << [text |-> "Waiting for input...", size |-> 16,
                         color |-> "#888"] >>,
     data |-> <<>>, axes_visible |-> FALSE, yaxis_title |-> ""]

\* the figure of the except branch; the annotation is str(e)
ErrorFigure(e) ==
    [title |-> <<"Error">>,
     annotations |-> << [text |-> e.msg, size |-> 14, color |-> "red"] >>,
     data |-> <<>>, axes_visible |-> TRUE, yaxis_title |-> ""]

\* pred > 0.5 raises TypeError unless pred is a number
Comparable(pred) == pred.tag = "num"

\* a colouring that counts 0.5 as high risk
RiskColorInclusive(pred) == IF pred.v >= 500 THEN "red" ELSE "green"

\* "red" if pred > 0.5 else "green"
RiskColor(pred) == IF pred.v > 500 THEN "red" ELSE "green"

\* the warning sign if pred > 0.5 else the check mark
RiskIcon(pred) == IF pred.v > 500 THEN "warning" ELSE "check"

\* f"{pred:.2f}", in hundredths (no modelled value lies halfway between two)
Format2f(pred) == (pred.v + 5) \div 10

\* a chart whose risk threshold depends on the target
BarFigurePerTarget(pred, target_value) ==
    LET high == IF Str(target_value) = "Neonatal" THEN pred.v > 300 ELSE pred.v > 500
    IN [title |-> <<"Prediction for ", Str(target_value)>>,
        annotations |-> <<>>,
        data |-> << [x |-> <<IF high THEN "warning" ELSE "check", Str(target_value)>>,
                     y |-> pred.v,
                     marker_color |-> IF high THEN "red" ELSE "green",
                     text |-> Format2f(pred)] >>,
        axes_visible |-> TRUE, yaxis_title |-> "Predicted Risk"]

BarFigure(pred, target_value) ==
    [title |-> <<"Prediction for ", Str(target_value)>>,
     annotations |-> <<>>,
     data |-> << [x |-> <<RiskIcon(pred), Str(target_value)>>, y |-> pred.v,
                  marker_color |-> RiskColor(pred), text |-> Format2f(pred)] >>,
     axes_visible |-> TRUE, yaxis_title |-> "Predicted Risk"]

\* the argument list of model.predict at line 202: one row, the selection
PredictArgs(features_selected) == PyList(<<features_selected>>)

\* a prediction that takes a missing model for a model of no risk
PredictExprDefault(m, features_selected) ==
    CASE m.tag = "estimator" -> m.predict[features_selected.items]
      [] m.tag = "None" -> PyNum(0)
      [] OTHER -> Exc("AttributeError", "object has no attribute 'predict'")

\* model.predict([features_selected]).tolist()[0] on the object m: the prediction,
\* or the exception the expression raises
PredictExpr(m, features_selected) ==
    CASE m.tag = "estimator" -> m.predict[features_selected.items]
      [] m.tag = "None" ->
           Exc("AttributeError", "'NoneType' object has no attribute 'predict'")
      [] m.tag = "dict" ->
           Exc("AttributeError", "'dict' object has no attribute 'predict'")
      [] OTHER -> Exc("AttributeError", "object has no attribute 'predict'")

\* a guard that forgets the target
GatedWithoutTarget(n_clicks, features_selected, target_value) ==
    ~(n_clicks = 0 \/ ~Truthy(features_selected))

\* the guard of the first return
Gated(n_clicks, features_selected, target_value) ==
    ~(n_clicks = 0 \/ ~Truthy(features_selected) \/ ~Truthy(target_value))

\* update_chart on the loaded object m: the figure returned (None when an
\* exception leaves the function), the exception that leaves it (None when it
\* returns), and the evaluations of the call expression at line 202
UpdateChart(m, n_clicks, features_selected, target_value) ==
    IF ~Gated(n_clicks, features_selected, target_value)
    THEN [figure |-> WaitingFigure, raised |-> PyNone, calls |-> <<>>]
    ELSE LET pred == PredictExpr(m, features_selected)
             call == [callee |-> m, args |-> PredictArgs(features_selected),
                      outcome |-> pred]
         IN IF Raised(pred)
            THEN [figure |-> ErrorFigure(pred), raised |-> PyNone, calls |-> <<call>>]
            ELSE IF ~Comparable(pred)
            THEN [figure |-> PyNone,
                  raised |-> Exc("TypeError",
                                 "'>' not supported between instances of 'str' and 'float'"),
                  calls |-> <<call>>]
            ELSE [figure |-> BarFigure(pred, target_value), raised |-> PyNone,
                  calls |-> <<call>>]

\* what the State inputs of the callback can hold
SelectionValues == {PyNone} \cup {PyList(q) : q \in Selections}
TargetValues == {PyNone} \cup {PyStr(t) : t \in TargetOptions}

\* a callback that drops the model when the prediction fails
UpdateChartCallbackDropsModel ==
    /\ pc = "serving"
    /\ \E n_clicks \in 0..MaxClicks, features_selected \in SelectionValues,
          target_value \in TargetValues :
          LET r == UpdateChart(model, n_clicks, features_selected, target_value)
          IN /\ last' = [tag |-> "callback", n_clicks |-> n_clicks,
                         features_selected |-> features_selected,
                         target_value |-> target_value,
                         figure |-> r.figure, raised |-> r.raised, calls |-> r.calls]
             /\ model' = IF r.calls # <<>> /\ Raised(r.calls[1].outcome)
                         THEN PyNone ELSE model
    /\ prev' = Shift(last)
    /\ UNCHANGED <<disk, pc, feature_importances, dlLog, loads, prevRun, runs, qres>>

\* one round trip of the callback
UpdateChartCallback ==
    /\ pc = "serving"
    /\ \E n_clicks \in 0..MaxClicks, features_selected \in SelectionValues,
          target_value \in TargetValues :
          LET r == UpdateChart(model, n_clicks, features_selected, target_value)
          IN last' = [tag |-> "callback", n_clicks |-> n_clicks,
                      features_selected |-> features_selected,
                      target_value |-> target_value,
                      figure |-> r.figure, raised |-> r.raised, calls |-> r.calls]
    /\ prev' = Shift(last)
    /\ UNCHANGED <<disk, pc, feature_importances, model, dlLog, loads, prevRun,
                   runs, qres>>

Next == Startup \/ Index \/ Dashboard \/ UpdateChartCallback

Spec == Init /\ [][Next]_vars

---------------------------------------------------------------------------
(* The process started again on the same working directory *)

Restart ==
    /\ runs < MaxRestarts
    /\ runs' = runs + 1
    /\ prevRun' = [tag |-> "run", pc |-> pc, dlLog |-> dlLog]
    /\ pc' = "fetch"
    /\ feature_importances' = Unbound
    /\ model' = Unbound
    /\ dlLog' = <<>>
    /\ loads' = NoLoads
    /\ last' = NoRequest
    /\ prev' = NoRequest
    /\ UNCHANGED <<disk, qres>>

NextLifecycle == Startup \/ Restart

SpecRestart == Init /\ [][NextLifecycle]_vars

---------------------------------------------------------------------------
(* The feature query topFeatures(target, n) *)

\* str.lower on the target names that occur
Lower(s) ==
    CASE s \in {"Under5", "under5", "UNDER5"} -> "under5"
      [] s \in {"Infant", "infant", "INFANT"} -> "infant"
      [] s \in {"Neonatal", "neonatal"} -> "neonatal"
      [] OTHER -> s

\* the rows of the loaded value: those of a table, the items of a list
TableRows(table) ==
    CASE table.tag = "DataFrame" -> table.rows
      [] table.tag = "list" -> table.items
      [] OTHER -> <<>>

\* r put into the descending sequence q behind every row that is at least as important
InsertDesc(q, r) ==
    LET k == Cardinality({j \in 1..Len(q) : q[j].Importance >= r.Importance})
    IN SubSeq(q, 1, k) \o <<r>> \o SubSeq(q, k + 1, Len(q))

RECURSIVE SortDesc(_)
\* a stable sort by descending Importance
SortDesc(q) ==
    IF q = <<>> THEN <<>>
    ELSE InsertDesc(SortDesc(SubSeq(q, 1, Len(q) - 1)), q[Len(q)])

Matches(target, r) == Lower(r.Target) = Lower(target)

topFeatures(table, target, n) ==
    LET matching == SelectSeq(TableRows(table), LAMBDA r : Matches(target, r))
        sorted == SortDesc(matching)
        k == IF n < Len(sorted) THEN n ELSE Len(sorted)
    IN [j \in 1..k |-> sorted[j].Feature]

TableTargets == {"Under5", "under5", "Infant"}
TableFeatures == {"A", "B"}
TableImportances == {5, 9}
TableRowValues ==
    {Row(t, f, i) : t \in TableTargets, f \in TableFeatures, i \in TableImportances}
Tables == {DataFrame(q) : q \in SeqsUpTo(TableRowValues, MaxRows)}

QueryTargets == {"Under5", "under5", "UNDER5", "Infant", "Neonatal"}

Query ==
    /\ pc = "serving"
    /\ \E target \in QueryTargets, n \in 0..MaxN :
          qres' = [tag |-> "query", target |-> target, n |-> n,
                   result |-> topFeatures(feature_importances, target, n)]
    /\ UNCHANGED <<disk, pc, feature_importances, model, dlLog, loads, last, prev,
                   prevRun, runs>>

InitQuery == InitWith({Corrupt} \cup {Pickled(t) : t \in Tables}, {Corrupt})

NextQuery == Startup \/ Query

SpecQuery == InitQuery /\ [][NextQuery]_vars

---------------------------------------------------------------------------
(* Properties *)

LoadFailed(path) == loads[path] # <<>> /\ loads[path][Len(loads[path])] = "failed"
Unreadable(path) == disk[path] \in {Absent, Corrupt}
EmptyMapping == PyDict({})
EmptyTable == DataFrame(<<>>)

\* C1 as stated: when loading an artifact fails, the error is caught, startup goes
\* on, and the value in memory is an empty mapping for the model and an empty
\* three-column table for the feature importances.
C1_FallbackAsStated ==
    /\ LoadFailed(FEATURES_PATH) =>
          pc \in {"load_model", "main", "serving"} /\ feature_importances = EmptyTable
    /\ LoadFailed(MODEL_PATH) =>
          pc \in {"main", "serving"} /\ model = EmptyMapping

\* C1 amended: a load is tried on whatever the file holds; it fails exactly when the
\* file is missing or cannot be deserialized; then the error is caught, startup goes
\* on to the next step, and the value in memory is None for the model and the empty
\* list for the feature importances.
C1_LoaderFallback ==
    /\ loads[FEATURES_PATH] # <<>> =>
          /\ pc \in {"load_model", "main", "serving"}
          /\ LoadFailed(FEATURES_PATH) <=> Unreadable(FEATURES_PATH)
          /\ LoadFailed(FEATURES_PATH) => feature_importances = PyList(<<>>)
          /\ ~LoadFailed(FEATURES_PATH) => feature_importances = disk[FEATURES_PATH].obj
    /\ loads[MODEL_PATH] # <<>> =>
          /\ pc \in {"main", "serving"}
          /\ LoadFailed(MODEL_PATH) <=> Unreadable(MODEL_PATH)
          /\ LoadFailed(MODEL_PATH) => model = PyNone
          /\ ~LoadFailed(MODEL_PATH) => model = disk[MODEL_PATH].obj

\* both loads failed, one on a missing file and one on a corrupt one, and the
\* server runs
C1_Witness ==
    /\ pc = "serving"
    /\ LoadFailed(FEATURES_PATH) /\ disk[FEATURES_PATH] = Corrupt
    /\ LoadFailed(MODEL_PATH) /\ disk[MODEL_PATH] = Absent

IsPredict(r) ==
    /\ r.tag = "callback"
    /\ r.n_clicks > 0
    /\ r.features_selected.tag = "list" /\ r.features_selected.items # <<>>
    /\ r.target_value.tag = "str" /\ r.target_value.s # ""

\* C2 as stated: when the model failed to load, a predict interaction returns a
\* placeholder and never attempts to call the missing model.
C2_NoAttemptAsStated ==
    (LoadFailed(MODEL_PATH) /\ IsPredict(last)) =>
        /\ last.raised = PyNone
        /\ last.figure # PyNone /\ last.figure.data = <<>>
        /\ last.calls = <<>>

NoneTypeError == Exc("AttributeError", "'NoneType' object has no attribute 'predict'")

\* C2 amended: when the model failed to load, a predict interaction evaluates
\* model.predict(...) once on None, which raises AttributeError before any
\* predict method runs; the callback returns the 'Error' figure carrying that
\* message, without a bar, and no exception leaves it.
C2_MissingModelAtPredict ==
    (LoadFailed(MODEL_PATH) /\ IsPredict(last)) =>
        /\ last.raised = PyNone
        /\ last.figure = ErrorFigure(NoneTypeError)
        /\ last.figure.title = <<"Error">> /\ last.figure.data = <<>>
        /\ Len(last.calls) = 1
        /\ last.calls[1].callee = PyNone
        /\ last.calls[1].outcome = NoneTypeError

C2_Witness == LoadFailed(MODEL_PATH) /\ IsPredict(last) /\ pc = "serving"

LogEntries(log) == {log[k] : k \in 1..Len(log)}
FetchDone(log) == Len(log) = Len(FetchList)

\* C3: in every startup the download loop visits the two paths in order; a download
\* is issued for a path exactly when its file is missing at the check, a file that is
\* there is left as it is, and a startup after one whose downloads were all written
\* issues no download.
C3_FetchIfMissing ==
    /\ Len(dlLog) <= Len(FetchList)
    /\ \A k \in 1..Len(dlLog) :
          /\ dlLog[k].path = FetchList[k][2]
          /\ dlLog[k].issued <=> (dlLog[k].before = Absent)
          /\ dlLog[k].before # Absent => dlLog[k].after = dlLog[k].before
          /\ (dlLog[k].issued /\ dlLog[k].outcome = "written") =>
                dlLog[k].after # Absent
    /\ ( /\ prevRun.tag = "run"
         /\ FetchDone(prevRun.dlLog)
         /\ \A e \in LogEntries(prevRun.dlLog) : e.issued => e.outcome = "written" )
       => \A e \in LogEntries(dlLog) : ~e.issued

\* a startup that downloaded both files, and the next one past its download loop
C3_Witness ==
    /\ prevRun.tag = "run"
    /\ FetchDone(prevRun.dlLog)
    /\ \A e \in LogEntries(prevRun.dlLog) : e.issued /\ e.outcome = "written"
    /\ FetchDone(dlLog)
    /\ pc = "serving"

C4_Order ==
    /\ \A p \in Paths : Len(loads[p]) <= 1
    /\ (\E p \in Paths : loads[p] # <<>>) => FetchDone(dlLog)
    /\ loads[MODEL_PATH] # <<>> => loads[FEATURES_PATH] # <<>>
    /\ (pc = "serving" \/ last # NoRequest) => \A p \in Paths : Len(loads[p]) = 1

C4_NoReload ==
    pc = "serving" =>
        /\ pc' = "serving"
        /\ loads' = loads
        /\ dlLog' = dlLog
        /\ disk' = disk

\* C4: both fetch attempts come before both load attempts, each artifact is loaded
\* once, no request is served before both loads are over, and once the server runs
\* no load or download step runs again.
C4_StartupOrdering == [](C4_Order) /\ [][C4_NoReload]_vars

\* a callback served by a process that downloaded a file at startup
C4_Witness ==
    /\ pc = "serving"
    /\ last.tag = "callback"
    /\ \E e \in LogEntries(dlLog) : e.issued

\* C5: while requests are served, whatever they are and however they end, the
\* loaded model and the loaded feature importances keep their values.
C5_ReadOnlyArtifacts ==
    [][pc = "serving" =>
          /\ model' = model
          /\ feature_importances' = feature_importances]_vars

\* a prediction that failed, followed by the landing page
C5_Witness ==
    /\ pc = "serving"
    /\ model.tag = "estimator"
    /\ prev.tag = "callback" /\ prev.figure # PyNone /\ prev.figure.title = <<"Error">>
    /\ last.tag = "index"

\* the prediction the model returned in the callback r, when it returned a number
ReturnedNumber(r) ==
    r.tag = "callback" /\ r.calls # <<>> /\ r.calls[1].outcome.tag = "num"
PredOf(r) == r.calls[1].outcome.v
BarOf(r) == r.figure.data[1]

\* C6: for every number p the model returns in a predict callback the figure holds
\* one bar of height p, red with the warning icon exactly when p > 0.5 and green
\* with the check icon exactly when p <= 0.5; a model returning 0.73 gives a red
\* bar of height 0.73 with the warning icon.
C6_RiskColouring ==
    ReturnedNumber(last) =>
        /\ last.raised = PyNone
        /\ Len(last.figure.data) = 1
        /\ BarOf(last).y = PredOf(last)
        /\ BarOf(last).marker_color = "red" <=> PredOf(last) > 500
        /\ BarOf(last).marker_color = "green" <=> PredOf(last) <= 500
        /\ BarOf(last).x[1] = "warning" <=> BarOf(last).marker_color = "red"
        /\ BarOf(last).x[1] = "check" <=> BarOf(last).marker_color = "green"
        /\ PredOf(last) = 730 =>
              /\ BarOf(last).marker_color = "red"
              /\ BarOf(last).y = 730
              /\ BarOf(last).x[1] = "warning"

\* the model returned exactly 0.5
C6_Witness == ReturnedNumber(last) /\ PredOf(last) = 500 /\ pc = "serving"

\* C7: whatever was loaded and whatever is submitted, no exception leaves
\* update_chart, and a prediction that fails gives the 'Error' figure whose
\* annotation is the failure message and which holds no bar.
C7_NoEscape ==
    last.tag = "callback" =>
        /\ last.raised = PyNone
        /\ last.figure # PyNone
        /\ (last.calls # <<>> /\ Raised(last.calls[1].outcome)) =>
              /\ last.figure.title = <<"Error">>
              /\ last.figure.annotations[1].text = last.calls[1].outcome.msg
              /\ last.figure.data = <<>>

\* the rows of the table that match the target, whatever the case of the letters
MatchingIndices(rows, target) ==
    {k \in 1..Len(rows) : Lower(rows[k].Target) = Lower(target)}

\* res names the rows at the indices idx, which are distinct, in descending
\* importance, and no row left out is more important than one that is in
IsTopN(rows, target, n, res) ==
    LET M == MatchingIndices(rows, target)
    IN /\ Len(res) = (IF n < Cardinality(M) THEN n ELSE Cardinality(M))
       /\ \E idx \in [1..Len(res) -> M] :
             /\ \A a, b \in 1..Len(res) : a # b => idx[a] # idx[b]
             /\ \A a \in 1..Len(res) : res[a] = rows[idx[a]].Feature
             /\ \A a, b \in 1..Len(res) :
                   a < b => rows[idx[a]].Importance >= rows[idx[b]].Importance
             /\ \A a \in 1..Len(res) :
                   \A k \in M \ {idx[b] : b \in 1..Len(res)} :
                      rows[idx[a]].Importance >= rows[k].Importance

C9_PredictGating ==
    last.tag = "callback" =>
        IF IsPredict(last)
        THEN /\ Len(last.calls) = 1
             /\ last.calls[1].callee = model
             /\ last.calls[1].args = PyList(<<last.features_selected>>)
             /\ Len(last.calls[1].args.items) = 1
             /\ last.calls[1].args.items[1].items \in Selections
        ELSE /\ last.calls = <<>>
             /\ last.figure = WaitingFigure
             /\ last.figure.annotations[1].text = "Waiting for input..."
             /\ last.raised = PyNone

\* a click with a selection and no target, after a callback that called the model
C9_Witness ==
    /\ last.tag = "callback" /\ ~IsPredict(last)
    /\ last.n_clicks > 0 /\ Truthy(last.features_selected)
    /\ IsCall(prev) /\ prev.calls[1].callee.tag = "estimator"

SameButTarget(r1, r2) ==
    /\ IsCall(r1) /\ IsCall(r2)
    /\ r1.features_selected = r2.features_selected
    /\ r1.target_value # r2.target_value

\* C10: two predict callbacks with the same selection and different targets get the
\* same prediction from the model and end the same way; when they draw a bar, it has
\* the same height, colour, icon and text, and only its label and the title of the
\* chart name the target.
C10_TargetIndependence ==
    SameButTarget(prev, last) =>
        /\ prev.calls[1].outcome = last.calls[1].outcome
        /\ prev.raised = last.raised
        /\ (prev.figure = PyNone) <=> (last.figure = PyNone)
        /\ prev.figure # PyNone =>
              /\ Len(prev.figure.data) = Len(last.figure.data)
              /\ prev.figure.annotations = last.figure.annotations
              /\ prev.figure.data # <<>> =>
                    /\ BarOf(prev).y = BarOf(last).y
                    /\ BarOf(prev).marker_color = BarOf(last).marker_color
                    /\ BarOf(prev).x[1] = BarOf(last).x[1]
                    /\ BarOf(prev).text = BarOf(last).text
                    /\ BarOf(prev).x[2] = Str(prev.target_value)
                    /\ BarOf(last).x[2] = Str(last.target_value)
                    /\ prev.figure.title[2] = Str(prev.target_value)
                    /\ last.figure.title[2] = Str(last.target_value)

\* two bars for the same selection, one for Under5 and one for Neonatal
C10_Witness ==
    /\ SameButTarget(prev, last)
    /\ prev.target_value = PyStr("Under5") /\ last.target_value = PyStr("Neonatal")
    /\ prev.figure # PyNone /\ prev.figure.data # <<>>
    /\ last.figure # PyNone /\ last.figure.data # <<>>

====
